---- MODULE Spec2Model ----
(***************************************************************************)
(* Model of the syslog server of src/src/main.rs: a UDP receiver task, a   *)
(* bounded tokio mpsc channel, the consumer loop of main that spawns one   *)
(* task per dequeued item, and LogHandler (handle_log, parse_priority,     *)
(* write_to_csv) appending CSV rows to one shared file.                    *)
(*                                                                         *)
(* Texts are sequences of one-character strings.  Spawned tasks run on the *)
(* worker threads of the #[tokio::main] multi-thread runtime: a task holds *)
(* a worker from the moment it is polled until it returns Pending or ends. *)
(* handle_log has no suspension point (std::fs and csv are synchronous),   *)
(* so a dispatched unit holds its worker for its whole life.  The consumer *)
(* loop is the future of main, driven by block_on on the main thread.      *)
(***************************************************************************)
EXTENDS Integers, Sequences, FiniteSets, TLC

\* ------------------------------------------------------------ bounds
\* Number of socket events (datagrams or receive errors) of one run.
MaxDatagrams == 3
\* args.queue_size, the capacity handed to mpsc::channel (default 1000).
Capacity == 2
\* Worker threads of the runtime (the number of cores by default).
Workers == 2
\* Longest digit string placed between '<' and '>' in the parser inputs.
MaxDigits == 3
\* Longest text of the exhaustive short-text parser inputs.
MaxShort == 4

VARIABLES
    net,        \* the socket events of the run, in arrival order
    rpc,        \* position of the receiver task
    held,       \* the (ip, data) pair the receiver is sending; id 0 when none
    queue,      \* the mpsc channel's buffered items
    gauge,      \* syslog_queue_size
    units,      \* the tasks spawned by the consumer loop, by datagram id
    storeExists,\* whether the output file exists
    store,      \* rows of the output file
    received,   \* syslog_received_total
    written,    \* syslog_written_total
    cpc,        \* position of the consumer loop of main
    nextId,     \* number of socket events recv_from has returned so far
    enq,        \* history: ids in the order they entered the channel
    deq         \* history: ids in the order the consumer loop dequeued them

vars == <<net, rpc, held, queue, gauge, units, storeExists, store,
          received, written, cpc, nextId, enq, deq>>

Ids == 1..MaxDatagrams

\* ------------------------------------------------------------ texts
Digits == <<"0", "1", "2", "3", "4", "5", "6", "7", "8", "9">>

DigitSet == {Digits[i] : i \in 1..10}

DigitVal(c) == CHOOSE d \in 0..9 : Digits[d + 1] = c

\* char::is_whitespace restricted to the characters of the model's texts.
White == {" ", "\t", "\n", "\r"}

\* str::find(char): the 1-based index of the first occurrence, 0 for None.
Find(s, c) ==
    IF \E i \in 1..Len(s) : s[i] = c
    THEN CHOOSE i \in 1..Len(s) : s[i] = c /\ \A j \in 1..(i - 1) : s[j] # c
    ELSE 0

\* An accumulation that wraps at 256 instead of reporting the overflow.
RECURSIVE AccumulateWrapping(_, _)
AccumulateWrapping(digits, acc) ==
    IF Len(digits) = 0 THEN acc
    ELSE AccumulateWrapping(Tail(digits),
                            (acc * 10 + DigitVal(Head(digits))) % 256)

\* The checked accumulation of u8::from_str: -1 once the value leaves u8.
RECURSIVE Accumulate(_, _)
Accumulate(digits, acc) ==
    IF Len(digits) = 0 THEN acc
    ELSE LET next == acc * 10 + DigitVal(Head(digits))
         IN  IF next > 255 THEN -1 ELSE Accumulate(Tail(digits), next)

\* str::parse::<u8>(): an optional '+', then one or more decimal digits.
ParseU8(s) ==
    IF Len(s) = 0 THEN [ok |-> FALSE, val |-> 0]
    ELSE LET digits == IF s[1] = "+" THEN Tail(s) ELSE s
         IN  IF Len(digits) = 0 \/ \E i \in 1..Len(digits) : digits[i] \notin DigitSet
             THEN [ok |-> FALSE, val |-> 0]
             ELSE LET v == Accumulate(digits, 0)
                  IN  IF v < 0 THEN [ok |-> FALSE, val |-> 0]
                      ELSE [ok |-> TRUE, val |-> v]

\* The slice log_data[pri_start + 1..pri_end]; it panics when begin > end.
PrioritySlicePanics(ps, pe) == pe < ps

\* LogHandler::parse_priority.  kind is "ok", "err" (an Err value returned
\* through ?) or "panic" (the slice index check).
ParsePriority(log_data) ==
    LET ps == Find(log_data, "<")
        pe == Find(log_data, ">")
    IN  IF ps = 0 THEN [kind |-> "err", facility |-> 0, severity |-> 0]
        ELSE IF pe = 0 THEN [kind |-> "err", facility |-> 0, severity |-> 0]
        ELSE IF PrioritySlicePanics(ps, pe)
             THEN [kind |-> "panic", facility |-> 0, severity |-> 0]
        ELSE LET p == ParseU8(SubSeq(log_data, ps + 1, pe - 1))
             IN  IF p.ok
                 THEN [kind |-> "ok", facility |-> p.val \div 8,
                       severity |-> p.val % 8]
                 ELSE [kind |-> "err", facility |-> 0, severity |-> 0]

\* str::replace('\n', "").
RemoveNewlines(s) == SelectSeq(s, LAMBDA c : c # "\n")

RECURSIVE TrimStart(_)
TrimStart(s) ==
    IF Len(s) > 0 /\ Head(s) \in White THEN TrimStart(Tail(s)) ELSE s

RECURSIVE TrimEnd(_)
TrimEnd(s) ==
    IF Len(s) > 0 /\ s[Len(s)] \in White
    THEN TrimEnd(SubSeq(s, 1, Len(s) - 1)) ELSE s

\* str::trim().
Trim(s) == TrimEnd(TrimStart(s))

\* A syslog field that is trimmed with its newlines left in.
NormalizeTrimOnly(log_data) == Trim(log_data)

\* The syslog field: log_data.replace('\n', "").trim().
Normalize(log_data) == Trim(RemoveNewlines(log_data))

\* ------------------------------------------------------------ clock
\* n written in decimal, zero-padded to w digits.
RECURSIVE Pad(_, _)
Pad(n, w) ==
    IF w = 0 THEN <<>> ELSE Pad(n \div 10, w - 1) \o <<Digits[(n % 10) + 1]>>

\* Local::now().format("%Y-%m-%d %H:%M:%S%.3f").
FormatTime(t) ==
    Pad(t.year, 4) \o <<"-">> \o Pad(t.month, 2) \o <<"-">> \o Pad(t.day, 2)
    \o <<" ">> \o Pad(t.hour, 2) \o <<":">> \o Pad(t.minute, 2) \o <<":">>
    \o Pad(t.second, 2) \o <<".">> \o Pad(t.millis, 3)

\* The instants Local::now() is drawn from: one, since the format is applied
\* to each instant alone and no step reads another unit's event_time.
Times ==
    { [year |-> 2024, month |-> 12, day |-> 31, hour |-> 23, minute |-> 59,
       second |-> 59, millis |-> 7] }

\* ------------------------------------------------------------ records
\* SysLogEntry, with the datagram id kept beside it as history.
NoEntry == [event_time |-> <<>>, device_ip |-> "", syslog |-> <<>>,
            severity |-> 0, facility |-> 0]

\* The header row csv writes for SysLogEntry when has_headers is true.
HeaderRow == [id |-> 0,
              fields |-> <<"event_time", "device_ip", "syslog", "severity",
                           "facility">>]

\* The row csv::Writer::serialize writes for an entry: its fields in order.
DataRow(id, e) ==
    [id |-> id,
     fields |-> <<e.event_time, e.device_ip, e.syslog, e.severity, e.facility>>]

NoUnit == [pc |-> "none", ip |-> "", data |-> <<>>, entry |-> NoEntry,
           needs_headers |-> FALSE, buf |-> <<>>, error |-> "none"]

NoHeld == [id |-> 0, ip |-> "", data |-> <<>>]

\* Positions in which a task occupies a worker thread.
UnitRunning == {"open", "metadata", "serialize", "flush", "count"}
ReceiverRunning == {"recv", "send", "gauge"}

\* Worker threads currently occupied.
Busy ==
    Cardinality({u \in Ids : units[u].pc \in UnitRunning})
    + (IF rpc \in ReceiverRunning THEN 1 ELSE 0)

\* ------------------------------------------------------------ inputs
GoodText == <<"<", "1", "3", ">", "t", "e", "s", "t", " ", "m", "e", "s", "s",
              "a", "g", "e">>

BadText == <<"n", "o", " ", "p", "r", "i", "o", "r", "i", "t", "y", " ", "h",
             "e", "r", "e">>

\* The first '>' stands before the first '<'.
ReversedText == <<">", "1", "<">>

\* A byte that occurs in no UTF-8 encoding.
InvalidByte == "0xFF"

UndecodableBytes == <<"<", "1", "3", ">", InvalidByte>>

Datagram(ip, bytes) == [kind |-> "dgram", ip |-> ip, bytes |-> bytes]

SocketError == [kind |-> "error", ip |-> "", bytes |-> <<>>]

\* The socket events of the pipeline specification.
Events ==
    { Datagram("10.0.0.5", GoodText), Datagram("10.0.0.6", BadText),
      Datagram("10.0.0.7", ReversedText),
      Datagram("10.0.0.8", UndecodableBytes), SocketError }

\* A lossy decoding: an invalid byte becomes a replacement character.
FromUtf8Lossy(bytes) ==
    [ok |-> TRUE,
     data |-> [k \in 1..Len(bytes) |->
                 IF bytes[k] = InvalidByte THEN "?" ELSE bytes[k]]]

\* String::from_utf8 on the received bytes.
FromUtf8(bytes) ==
    IF \E i \in 1..Len(bytes) : bytes[i] = InvalidByte
    THEN [ok |-> FALSE, data |-> <<>>]
    ELSE [ok |-> TRUE, data |-> bytes]

\* ------------------------------------------------------------ channel
\* The sender half lives in the receiver task, whose loop has no exit.
TxAlive == rpc # "ended"

\* tokio mpsc: send appends at the back of the buffer.
EnqueueDropping(q, item) == q

Enqueue(q, item) == Append(q, item)

\* A recv that takes the newest item.
DequeueIndexLast(q) == Len(q)

\* tokio mpsc: recv takes the item at the front of the buffer.
DequeueIndex(q) == 1

RemoveAt(q, i) == SubSeq(q, 1, i - 1) \o SubSeq(q, i + 1, Len(q))

\* Sender::capacity(): the permits still available.
TxCapacity(q) == Capacity - Len(q)

\* A send that never waits for a permit.
SendReadyUnbounded(q) == TRUE

\* Whether send completes at once (a permit is available).
SendReady(q) == Len(q) < Capacity

\* ------------------------------------------------------------ receiver
\* The runtime polls the spawned receiver task for the first time.
ReceiverStart ==
    /\ rpc = "spawned"
    /\ Busy < Workers
    /\ rpc' = "recv"
    /\ UNCHANGED <<net, held, queue, gauge, units, storeExists, store,
                   received, written, cpc, nextId, enq, deq>>

\* recv_from returns Ok((size, addr)); the bytes decode or the datagram is
\* dropped.
RecvDatagram ==
    /\ rpc = "recv"
    /\ nextId < Len(net)
    /\ net[nextId + 1].kind = "dgram"
    /\ nextId' = nextId + 1
    /\ LET d == FromUtf8(net[nextId + 1].bytes)
       IN  IF d.ok
           THEN /\ held' = [id |-> nextId + 1, ip |-> net[nextId + 1].ip,
                            data |-> d.data]
                /\ rpc' = "send"
           ELSE UNCHANGED <<held, rpc>>
    /\ UNCHANGED <<net, queue, gauge, units, storeExists, store, received, written,
                   cpc, enq, deq>>

\* A receiver whose loop ends at a socket error.
AfterSocketErrorBreak == "ended"

\* Err(e) => error!(..): the match arm falls through to the next iteration.
AfterSocketError == "recv"

\* A receiver whose loop ends when no datagram is ready.
AfterWouldBlockBreak == "ended"

\* WouldBlock => { sleep(10 ms).await; continue; }.
AfterWouldBlock == "sleep"

\* recv_from returns an error other than WouldBlock: logged, loop again.
RecvSocketError ==
    /\ rpc = "recv"
    /\ nextId < Len(net)
    /\ net[nextId + 1].kind = "error"
    /\ nextId' = nextId + 1
    /\ rpc' = AfterSocketError
    /\ UNCHANGED <<net, held, queue, gauge, units, storeExists, store,
                   received, written, cpc, enq, deq>>

\* recv_from returns WouldBlock (no datagram has arrived yet): the task
\* awaits the 10 ms sleep and leaves its worker.
RecvWouldBlock ==
    /\ rpc = "recv"
    /\ rpc' = AfterWouldBlock
    /\ UNCHANGED <<net, held, queue, gauge, units, storeExists, store,
                   received, written, cpc, nextId, enq, deq>>

\* The sleep has elapsed and a worker polls the task again.
ReceiverWake ==
    /\ rpc = "sleep"
    /\ Busy < Workers
    /\ rpc' = "recv"
    /\ UNCHANGED <<net, held, queue, gauge, units, storeExists, store,
                   received, written, cpc, nextId, enq, deq>>

\* What tx.send(item).await does once it can complete: an error when the
\* receiving half is gone, the item at the back of the buffer otherwise.
CompleteSend ==
    /\ IF cpc = "exited"
       THEN UNCHANGED <<queue, enq>>
       ELSE /\ queue' = Enqueue(queue, held)
            /\ enq' = Append(enq, held.id)
    /\ held' = NoHeld
    /\ rpc' = "gauge"

\* tx.send(..).await with a free slot (or a closed channel): no suspension.
SendNow ==
    /\ rpc = "send"
    /\ SendReady(queue) \/ cpc = "exited"
    /\ CompleteSend
    /\ UNCHANGED <<net, gauge, units, storeExists, store, received, written,
                   cpc, nextId, deq>>

\* tx.send(..).await on a full channel: Pending, the task leaves its worker.
SendPending ==
    /\ rpc = "send"
    /\ ~SendReady(queue)
    /\ cpc # "exited"
    /\ rpc' = "blocked"
    /\ UNCHANGED <<net, held, queue, gauge, units, storeExists, store,
                   received, written, cpc, nextId, enq, deq>>

\* A slot was freed: the suspended send is polled again and completes.
SendResume ==
    /\ rpc = "blocked"
    /\ SendReady(queue) \/ cpc = "exited"
    /\ Busy < Workers
    /\ CompleteSend
    /\ UNCHANGED <<net, gauge, units, storeExists, store, received, written,
                   cpc, nextId, deq>>

\* gauge!("syslog_queue_size", tx.capacity()).
SetGauge ==
    /\ rpc = "gauge"
    /\ gauge' = TxCapacity(queue)
    /\ rpc' = "recv"
    /\ UNCHANGED <<net, held, queue, units, storeExists, store, received,
                   written, cpc, nextId, enq, deq>>

\* ------------------------------------------------------------ consumer
\* while let Some((ip, data)) = rx.recv().await { tokio::spawn(..) }.
\* recv is Pending on an empty channel with a live sender, None once every
\* sender is dropped.
ConsumerRecv ==
    /\ cpc = "loop"
    /\ queue # <<>> \/ ~TxAlive
    /\ IF queue # <<>>
       THEN LET i == DequeueIndex(queue)
                item == queue[i]
            IN  /\ queue' = RemoveAt(queue, i)
                /\ deq' = Append(deq, item.id)
                /\ units' = [units EXCEPT ![item.id] =
                                [NoUnit EXCEPT !.pc = "spawned",
                                               !.ip = item.ip,
                                               !.data = item.data]]
                /\ UNCHANGED cpc
       ELSE /\ cpc' = "exited"
            /\ UNCHANGED <<queue, deq, units>>
    /\ UNCHANGED <<net, rpc, held, gauge, storeExists, store, received,
                   written, nextId, enq>>

\* ------------------------------------------------------------ dispatcher
\* An entry built with severity and facility exchanged.
BuildEntrySwapped(source_ip, log_data, pri, now) ==
    [event_time |-> FormatTime(now), device_ip |-> source_ip,
     syslog |-> Normalize(log_data), severity |-> pri.facility,
     facility |-> pri.severity]

\* The SysLogEntry handle_log builds from the parsed priority.
BuildEntry(source_ip, log_data, pri, now) ==
    [event_time |-> FormatTime(now), device_ip |-> source_ip,
     syslog |-> Normalize(log_data), severity |-> pri.severity,
     facility |-> pri.facility]

\* What the csv writer buffers for one serialize call: the header first when
\* has_headers is true.
SerializedRowsHeaderLast(needs_headers, id, entry) ==
    IF needs_headers THEN <<DataRow(id, entry), HeaderRow>>
    ELSE <<DataRow(id, entry)>>

SerializedRows(needs_headers, id, entry) ==
    IF needs_headers THEN <<HeaderRow, DataRow(id, entry)>>
    ELSE <<DataRow(id, entry)>>

\* A writer left at the csv default, has_headers(true).
NeedsHeadersAlways(st) == TRUE

\* file.metadata()?.len() == 0.
NeedsHeaders(st) == Len(st) = 0

\* A flush that writes at the start of the file.
PrependRows(st, rows) == rows \o st

\* A flush on a file opened with truncate instead of append.
OverwriteRows(st, rows) == rows

\* A flush on a file opened with append(true): the buffered bytes go to the
\* end of the file in one write.
AppendRows(st, rows) == st \o rows

\* A handle_log that counts the message written whatever write_to_csv returns.
AfterFlushUnchecked(flushed) == "count"

\* Where write_to_csv's result takes handle_log: Ok goes on to the written
\* counter, Err returns through ? to the spawned closure, which logs it.
AfterFlush(flushed) == IF flushed THEN "count" ELSE "err"

\* The lenient policy: a parse failure goes on to the store with defaults.
AfterParseLenient(kind) == IF kind = "panic" THEN "panicked" ELSE "open"

\* Where parse_priority's result takes handle_log: Ok goes on to build and
\* write the entry, Err returns through ? to the closure, which logs it, and
\* a panic unwinds the task.
AfterParse(kind) ==
    IF kind = "ok" THEN "open" ELSE IF kind = "err" THEN "err" ELSE "panicked"

\* A worker polls the spawned unit: handle_log increments the received
\* counter, parses the priority and builds the entry.
HandleLogStart(u) ==
    /\ units[u].pc = "spawned"
    /\ Busy < Workers
    /\ received' = received + 1
    /\ \E now \in Times :
         LET pri == ParsePriority(units[u].data)
             to == AfterParse(pri.kind)
         IN  units' = [units EXCEPT ![u] =
                 IF to = "open"
                 THEN [@ EXCEPT !.pc = to,
                                !.entry = BuildEntry(units[u].ip,
                                                     units[u].data, pri, now)]
                 ELSE IF to = "err"
                 THEN [@ EXCEPT !.pc = to, !.error = "parse"]
                 ELSE [@ EXCEPT !.pc = to]]
    /\ UNCHANGED <<net, rpc, held, queue, gauge, storeExists, store, written,
                   cpc, nextId, enq, deq>>

\* OpenOptions::new().create(true).append(true).open(..) succeeds.
OpenStore(u) ==
    /\ units[u].pc = "open"
    /\ storeExists' = TRUE
    /\ units' = [units EXCEPT ![u].pc = "metadata"]
    /\ UNCHANGED <<net, rpc, held, queue, gauge, store, received, written,
                   cpc, nextId, enq, deq>>

\* file.metadata()?.len() == 0 decides has_headers.
CheckSize(u) ==
    /\ units[u].pc = "metadata"
    /\ units' = [units EXCEPT ![u].pc = "serialize",
                              ![u].needs_headers = NeedsHeaders(store)]
    /\ UNCHANGED <<net, rpc, held, queue, gauge, storeExists, store, received,
                   written, cpc, nextId, enq, deq>>

\* writer.serialize(entry) fills the writer's buffer.
Serialize(u) ==
    /\ units[u].pc = "serialize"
    /\ units' = [units EXCEPT ![u].pc = "flush",
                              ![u].buf = SerializedRows(units[u].needs_headers,
                                                        u, units[u].entry)]
    /\ UNCHANGED <<net, rpc, held, queue, gauge, storeExists, store, received,
                   written, cpc, nextId, enq, deq>>

\* writer.flush() appends the buffer to the file.
Flush(u) ==
    /\ units[u].pc = "flush"
    /\ store' = AppendRows(store, units[u].buf)
    /\ units' = [units EXCEPT ![u].pc = AfterFlush(TRUE), ![u].buf = <<>>]
    /\ UNCHANGED <<net, rpc, held, queue, gauge, storeExists, received,
                   written, cpc, nextId, enq, deq>>

\* open, metadata, serialize or flush returns an io::Error: nothing reaches
\* the file, the error returns through ? and the closure logs it.
StoreFails(u) ==
    /\ units[u].pc \in {"open", "metadata", "serialize", "flush"}
    /\ units' = [units EXCEPT ![u].pc = AfterFlush(FALSE), ![u].buf = <<>>,
                              ![u].error = "io"]
    /\ UNCHANGED <<net, rpc, held, queue, gauge, storeExists, store, received,
                   written, cpc, nextId, enq, deq>>

\* increment_counter!("syslog_written_total"); Ok(()).
CountWritten(u) ==
    /\ units[u].pc = "count"
    /\ written' = written + 1
    /\ units' = [units EXCEPT ![u].pc = "ok"]
    /\ UNCHANGED <<net, rpc, held, queue, gauge, storeExists, store, received,
                   cpc, nextId, enq, deq>>

UnitStep(u) ==
    \/ HandleLogStart(u)
    \/ OpenStore(u)
    \/ CheckSize(u)
    \/ Serialize(u)
    \/ Flush(u)
    \/ StoreFails(u)
    \/ CountWritten(u)

\* ------------------------------------------------------------ pipeline
Init ==
    /\ net \in [1..MaxDatagrams -> Events]
    /\ rpc = "spawned"
    /\ held = NoHeld
    /\ queue = <<>>
    /\ gauge = 0
    /\ units = [u \in Ids |-> NoUnit]
    /\ storeExists = FALSE
    /\ store = <<>>
    /\ received = 0
    /\ written = 0
    /\ cpc = "loop"
    /\ nextId = 0
    /\ enq = <<>>
    /\ deq = <<>>

Next ==
    \/ ReceiverStart
    \/ RecvDatagram
    \/ RecvSocketError
    \/ RecvWouldBlock
    \/ ReceiverWake
    \/ SendNow
    \/ SendPending
    \/ SendResume
    \/ SetGauge
    \/ ConsumerRecv
    \/ \E u \in Ids : UnitStep(u)

Spec == Init /\ [][Next]_vars

\* The steps of the receiver task.
ReceiverStep ==
    \/ ReceiverStart
    \/ RecvDatagram
    \/ RecvSocketError
    \/ RecvWouldBlock
    \/ ReceiverWake
    \/ SendNow
    \/ SendPending
    \/ SendResume
    \/ SetGauge

\* The runtime polls every runnable task while a worker is free, the main
\* thread drives the consumer loop, and every store call returns.
FairSpec ==
    /\ Init
    /\ [][Next]_vars
    /\ WF_vars(ReceiverStep)
    /\ WF_vars(ConsumerRecv)
    /\ \A u \in Ids : WF_vars(UnitStep(u))

\* As FairSpec, but a store call may never return: a unit is polled when a
\* worker is free and runs the code between its store calls, and no unit is
\* required to come back from open, metadata, serialize or flush.
FairConsumerSpec ==
    /\ Init
    /\ [][Next]_vars
    /\ WF_vars(ReceiverStep)
    /\ WF_vars(ConsumerRecv)
    /\ \A u \in Ids : WF_vars(HandleLogStart(u)) /\ WF_vars(CountWritten(u))

\* ------------------------------------------------------------ writes in turn
\* The pipeline started on an absent or an empty output file.
InitSeq ==
    /\ net \in [1..MaxDatagrams -> Events]
    /\ rpc = "spawned"
    /\ held = NoHeld
    /\ queue = <<>>
    /\ gauge = 0
    /\ units = [u \in Ids |-> NoUnit]
    /\ storeExists \in BOOLEAN
    /\ store = <<>>
    /\ received = 0
    /\ written = 0
    /\ cpc = "loop"
    /\ nextId = 0
    /\ enq = <<>>
    /\ deq = <<>>

\* The open of write_to_csv in runs whose writes do not overlap: no other
\* unit is between its open and the end of its flush.
OpenStoreAlone(u) ==
    /\ \A v \in Ids \ {u} : units[v].pc \notin {"metadata", "serialize", "flush"}
    /\ OpenStore(u)

NextSeq ==
    \/ ReceiverStep
    \/ ConsumerRecv
    \/ \E u \in Ids :
          \/ HandleLogStart(u)
          \/ OpenStoreAlone(u)
          \/ CheckSize(u)
          \/ Serialize(u)
          \/ Flush(u)
          \/ StoreFails(u)
          \/ CountWritten(u)

\* The executions in which each write_to_csv call runs from open to flush
\* before the next one opens the store.
SpecSeq == InitSeq /\ [][NextSeq]_vars

\* ------------------------------------------------------------ parser inputs
\* Every sequence over S of length at most n.
SeqsUpTo(S, n) == UNION {[1..k -> S] : k \in 0..n}

DigitStrings == SeqsUpTo(DigitSet, MaxDigits) \ {<<>>}

\* What stands between '<' and '>': digit strings, signed digit strings and
\* strings that are no integer.
Bodies ==
    DigitStrings
    \cup {<<"+">> \o d : d \in DigitStrings}
    \cup {<<"-">> \o d : d \in DigitStrings}
    \cup { <<>>, <<"+">>, <<"-">>, <<"a">>, <<"1", "a">>, <<" ", "1">>,
           <<"1", " ">>, <<"1", ".", "5">>, <<"1", "+">>, <<"+", "+", "1">> }

DelimitedTexts ==
    { pre \o <<"<">> \o b \o <<">">> \o post :
        pre \in {<<>>, <<"a">>}, b \in Bodies, post \in {<<>>, <<"m", ">">>} }

\* Every text of at most MaxShort characters over the delimiters, a digit and
\* a letter.
ShortTexts == SeqsUpTo({"<", ">", "1", "a"}, MaxShort)

\* A valid priority surrounded by spaces, newlines and letters.
PaddedTexts ==
    { pre \o <<"<", "1", ">">> \o post :
        pre \in SeqsUpTo({" ", "\n", "a"}, 2),
        post \in SeqsUpTo({" ", "\n", "a"}, 2) }

ParseTexts == DelimitedTexts \cup ShortTexts \cup PaddedTexts

\* One datagram has been received, sent and dequeued, the receiver sleeps
\* and the spawned unit has not been polled yet.
InitParse ==
    /\ \E t \in ParseTexts :
         /\ net = <<Datagram("10.0.0.5", t)>>
         /\ units = [u \in Ids |->
                        IF u = 1
                        THEN [NoUnit EXCEPT !.pc = "spawned",
                                            !.ip = "10.0.0.5", !.data = t]
                        ELSE NoUnit]
    /\ rpc = "sleep"
    /\ held = NoHeld
    /\ queue = <<>>
    /\ gauge = Capacity - 1
    /\ storeExists = FALSE
    /\ store = <<>>
    /\ received = 0
    /\ written = 0
    /\ cpc = "loop"
    /\ nextId = 1
    /\ enq = <<1>>
    /\ deq = <<1>>

NextParse == \E u \in Ids : UnitStep(u)

SpecParse == InitParse /\ [][NextParse]_vars

\* ------------------------------------------------------------ properties
Range(q) == {q[k] : k \in 1..Len(q)}

\* Rows of the store that are header rows.
HeaderCount(st) == Cardinality({k \in 1..Len(st) : st[k].id = 0})

\* Data rows of the store.
DataRowCount(st) == Cardinality({k \in 1..Len(st) : st[k].id # 0})

\* Data rows of the store written for datagram i.
RowCount(st, i) == Cardinality({k \in 1..Len(st) : st[k].id = i})

\* Socket events consumed so far that were datagrams of valid UTF-8.
Decoded ==
    {i \in 1..nextId : net[i].kind = "dgram" /\ FromUtf8(net[i].bytes).ok}

Finished(u) == units[u].pc \in {"ok", "err", "panicked"}

\* Every socket event is consumed, nothing is held or queued, and every
\* spawned unit has ended.
Quiescent ==
    /\ nextId = Len(net)
    /\ held.id = 0
    /\ queue = <<>>
    /\ \A u \in Ids : units[u].pc = "none" \/ Finished(u)

\* C1: once every unit that ran write_to_csv against the initially empty
\* store has ended, and at least one of them wrote, the store holds exactly
\* one header row.
C1_HeaderOnce ==
    (Quiescent /\ \E u \in Ids : units[u].pc = "ok") => HeaderCount(store) = 1

\* C2: the channel never holds more than Capacity items; a send suspended on
\* a full channel keeps its item and cannot complete while the channel is
\* full; and every decoded datagram is the held item, in the channel, or was
\* dequeued, with the source and text it arrived with.
C2_Backpressure ==
    /\ Len(queue) <= Capacity
    /\ rpc = "blocked" =>
         /\ held.id # 0
         /\ Len(queue) = Capacity => ~ENABLED SendResume
    /\ \A i \in Decoded :
         \/ held.id = i
         \/ \E k \in 1..Len(queue) : queue[k].id = i
         \/ i \in Range(deq)
    /\ \A k \in 1..Len(queue) :
         /\ queue[k].ip = net[queue[k].id].ip
         /\ queue[k].data = net[queue[k].id].bytes
         /\ queue[k].id \notin Range(deq)
         /\ \A j \in 1..Len(queue) : queue[j].id = queue[k].id => j = k

\* The receiver is suspended in send on a full channel.
C2_Witness == rpc = "blocked" /\ Len(queue) = Capacity /\ held.id # 0

\* C3: no datagram ever has more than one data row, and at quiescence every
\* decoded datagram whose priority parses and whose store calls did not fail
\* has exactly one.
C3_ExactlyOnce ==
    /\ \A i \in Ids : RowCount(store, i) <= 1
    /\ Quiescent =>
         \A i \in Decoded :
            (ParsePriority(net[i].bytes).kind = "ok" /\ units[i].error # "io")
               => RowCount(store, i) = 1

\* Two units whose writes overlapped (both wrote a header) have ended and
\* each left its row.
C3_Witness ==
    /\ Quiescent
    /\ HeaderCount(store) = 2
    /\ \E i, j \in Ids : i # j /\ RowCount(store, i) = 1 /\ RowCount(store, j) = 1

\* C4: the ids dequeued so far are, in order, the first ids that entered the
\* channel, the channel holds the others in order, and the units spawned are
\* those of the dequeued ids.
C4_Fifo ==
    /\ Len(deq) <= Len(enq)
    /\ deq = SubSeq(enq, 1, Len(deq))
    /\ [k \in 1..Len(queue) |-> queue[k].id] = SubSeq(enq, Len(deq) + 1, Len(enq))
    /\ \A i \in Ids : units[i].pc # "none" <=> i \in Range(deq)

\* Two items wait in the channel after an earlier one was dequeued.
C4_Witness == Len(queue) = 2 /\ Len(deq) = 1

\* The unit of datagram u has run handle_log up to parse_priority's result.
Parsed(u) == units[u].pc \notin {"none", "spawned"}

\* The text has no '<', or no '>' after its first '<'.
NoDelimiters(t) ==
    \/ \A k \in 1..Len(t) : t[k] # "<"
    \/ \E p \in 1..Len(t) :
         /\ t[p] = "<"
         /\ \A k \in 1..(p - 1) : t[k] # "<"
         /\ \A k \in (p + 1)..Len(t) : t[k] # ">"

\* C5: a unit whose text has no '<', or no '>' after the first '<', gets a
\* failure value from parse_priority, logs it and ends normally, and no row
\* is written for it.
C5_RejectsWithoutCrash ==
    \A u \in Ids :
       (Parsed(u) /\ NoDelimiters(units[u].data)) =>
          /\ units[u].pc = "err"
          /\ units[u].error = "parse"
          /\ RowCount(store, u) = 0

TestMessage == <<"t", "e", "s", "t", " ", "m", "e", "s", "s", "a", "g", "e">>

\* The rows of the store written for the datagram "<13>test message" from
\* 10.0.0.5.
GoodRows ==
    {k \in 1..Len(store) :
        /\ store[k].id # 0
        /\ net[store[k].id] = Datagram("10.0.0.5", GoodText)}

\* C6 as stated: the record written for "<13>test message" from 10.0.0.5 has
\* facility 1, severity 5, message "test message", device_ip 10.0.0.5 and a
\* non-empty event_time.
C6_EndToEndStripped ==
    \A k \in GoodRows :
       /\ Len(store[k].fields[1]) > 0
       /\ store[k].fields[2] = "10.0.0.5"
       /\ store[k].fields[3] = TestMessage
       /\ store[k].fields[4] = 5
       /\ store[k].fields[5] = 1

\* C6 as amended: the same record, whose message field is the whole text
\* "<13>test message", priority prefix included.
C6_EndToEnd ==
    \A k \in GoodRows :
       /\ Len(store[k].fields[1]) > 0
       /\ store[k].fields[2] = "10.0.0.5"
       /\ store[k].fields[3] = GoodText
       /\ store[k].fields[4] = 5
       /\ store[k].fields[5] = 1

\* The record of "<13>test message" is in the store.
C6_Witness == GoodRows # {}

\* n written in decimal without leading zeros.
RECURSIVE Decimal(_)
Decimal(n) ==
    IF n < 10 THEN <<Digits[n + 1]>>
    ELSE Decimal(n \div 10) \o <<Digits[(n % 10) + 1]>>

\* The numerals of the values a u8 holds.
Numerals == [n \in 0..255 |-> Decimal(n)]

RECURSIVE StripZeros(_)
StripZeros(b) ==
    IF Len(b) > 1 /\ Head(b) = "0" THEN StripZeros(Tail(b)) ELSE b

AllDigits(b) == Len(b) > 0 /\ \A k \in 1..Len(b) : b[k] \in DigitSet

\* An unsigned or '+'-signed digit string.
IsNumeral(b) ==
    AllDigits(b) \/ (Len(b) > 1 /\ Head(b) = "+" /\ AllDigits(Tail(b)))

\* The digits of a numeral, without sign and leading zeros.
Magnitude(b) == StripZeros(IF Head(b) = "+" THEN Tail(b) ELSE b)

\* What C7 says of a unit that has parsed text t, whose first '<' is at p and
\* whose first '>' is at q, p < q.
C7_Body(u, t, p, q) ==
    LET b == SubSeq(t, p + 1, q - 1)
    IN  /\ \A pri \in 0..255 :
             (IsNumeral(b) /\ Magnitude(b) = Numerals[pri]) =>
                /\ units[u].pc \notin {"err", "panicked"}
                /\ units[u].entry.facility = pri \div 8
                /\ units[u].entry.severity = pri % 8
                /\ units[u].entry.facility * 8 + units[u].entry.severity = pri
                /\ units[u].entry.severity \in 0..7
                /\ units[u].entry.facility \in 0..31
        /\ (~IsNumeral(b) \/ \A pri \in 0..255 : Magnitude(b) # Numerals[pri]) =>
                /\ units[u].pc = "err"
                /\ units[u].error = "parse"

\* C7: when the decimal numeral of a pri in 0..255 stands between the first
\* '<' and the first '>', the parse succeeds with facility = pri >> 3 and
\* severity = pri & 7, within 0..31 and 0..7; when a numeral of a larger
\* value, a '-'-signed string or any other non-integer stands there, the
\* parse fails.
C7_PriorityFields ==
    \A u \in Ids :
       (Parsed(u) /\ units[u].error # "io") =>
          \A p, q \in 1..Len(units[u].data) :
             ( /\ p < q
               /\ units[u].data[p] = "<"
               /\ units[u].data[q] = ">"
               /\ \A k \in 1..(p - 1) : units[u].data[k] # "<"
               /\ \A k \in 1..(q - 1) : units[u].data[k] # ">" )
             => C7_Body(u, units[u].data, p, q)

\* The largest priority, 255, has been parsed into facility 31, severity 7.
C7_Witness ==
    \E u \in Ids :
       /\ units[u].pc = "open"
       /\ units[u].data = <<"<", "2", "5", "5", ">">>
       /\ units[u].entry.facility = 31
       /\ units[u].entry.severity = 7

\* C8: the step in which a unit whose priority fails to parse runs
\* handle_log adds exactly one to the received counter and leaves the written
\* counter and the store as they are, and such a unit never goes on to the
\* store: it has no row and ends at once.
C8_ParseFailureCounted ==
    /\ [](\A u \in Ids :
            (units[u].pc # "none" /\ ParsePriority(units[u].data).kind # "ok")
               => /\ units[u].pc \in {"spawned", "err", "panicked"}
                  /\ RowCount(store, u) = 0)
    /\ [][\A u \in Ids :
            ( /\ units[u].pc = "spawned"
              /\ units'[u].pc # "spawned"
              /\ ParsePriority(units[u].data).kind # "ok" )
            => /\ received' = received + 1
               /\ written' = written
               /\ store' = store]_vars

\* The unit of "no priority here" has been counted and rejected while
\* another unit has written its row.
C8_Witness ==
    \E u \in Ids :
       /\ units[u].data = BadText
       /\ units[u].pc = "err"
       /\ received >= 2
       /\ written >= 1

\* Units inside a store call (open, metadata, serialize, flush).
InStoreCall == {u \in Ids : units[u].pc \in {"open", "metadata", "serialize", "flush"}}

\* C9: whenever the only tasks on worker threads are units inside a store
\* call (which may stall for ever), the receiver can take its next step, the
\* consumer loop can dequeue, and every unit not yet started can start.
C9_StallIsolated ==
    Busy = Cardinality(InStoreCall) =>
       /\ rpc = "spawned" => ENABLED ReceiverStart
       /\ rpc = "sleep" => ENABLED ReceiverWake
       /\ (rpc = "blocked" /\ SendReady(queue)) => ENABLED SendResume
       /\ queue # <<>> => ENABLED ConsumerRecv
       /\ \A u \in Ids : units[u].pc = "spawned" => ENABLED HandleLogStart(u)

\* C10: the counters never decrease, written never exceeds received nor the
\* number of data rows in the store, and a unit that counts itself written
\* has its row in the store.
C10_Counters ==
    /\ [](/\ written <= received
          /\ written <= DataRowCount(store)
          /\ \A u \in Ids :
               units[u].pc \in {"count", "ok"} => RowCount(store, u) = 1)
    /\ [][received' >= received /\ written' >= written]_vars

\* Two rows are written and counted and a third unit failed in the store.
C10_Witness ==
    /\ written = 2
    /\ received = 3
    /\ \E u \in Ids : units[u].error = "io"

\* C11: the receiver loop never ends, and whatever recv_from returned
\* (a datagram, undecodable bytes, WouldBlock, another socket error) and
\* however the send went, the receiver comes back to the call of recv_from.
C11_ReceiverNeverEnds ==
    /\ [](rpc # "ended")
    /\ []<>(rpc = "recv")

\* Every socket event of a run with a socket error and undecodable bytes has
\* been consumed and the receiver is at recv_from again.
C11_Witness ==
    /\ rpc = "recv"
    /\ nextId = Len(net)
    /\ \E i \in 1..Len(net) : net[i] = SocketError
    /\ \E i \in 1..Len(net) : net[i].bytes = UndecodableBytes
    /\ \E i \in 1..Len(net) : i \in Range(enq)

\* The bytes hold a byte that no UTF-8 text holds.
Undecodable(bytes) == \E k \in 1..Len(bytes) : bytes[k] = InvalidByte

\* C12: the step that receives a datagram of undecodable bytes changes
\* nothing but the socket: no item is held or queued, the counters, the gauge
\* and the store keep their values; and no unit is ever spawned for it.
C12_UndecodableDropped ==
    /\ [](\A i \in 1..nextId :
            (net[i].kind = "dgram" /\ Undecodable(net[i].bytes)) =>
               /\ held.id # i
               /\ i \notin Range(enq)
               /\ units[i].pc = "none"
               /\ RowCount(store, i) = 0)
    /\ [][( /\ nextId' = nextId + 1
            /\ net[nextId'].kind = "dgram"
            /\ Undecodable(net[nextId'].bytes) )
          => UNCHANGED <<rpc, held, queue, gauge, units, store, received,
                         written, enq, deq>>]_vars

\* Undecodable bytes were received after an earlier datagram was queued and
\* counted.
C12_Witness ==
    /\ nextId >= 2
    /\ net[nextId].kind = "dgram"
    /\ Undecodable(net[nextId].bytes)
    /\ rpc = "recv"
    /\ received >= 1

\* Two rows are the same row of the file.
SameRow(a, b) == a.id = b.id /\ (a.id # 0 => a.fields = b.fields)

\* C13: every step leaves the rows already in the store where they are and
\* as they are: the store before the step is a prefix of the store after it.
C13_AppendOnly ==
    [][ /\ Len(store) <= Len(store')
        /\ \A k \in 1..Len(store) : SameRow(store[k], store'[k]) ]_vars

\* A unit has appended its row to a store that already held rows.
C13_Witness == Len(store) >= 3 /\ HeaderCount(store) = 1

\* C14: the sender half and the receiving half both stay alive: the receiver
\* task never ends, the consumer loop never leaves its loop, and every send
\* the receiver completed put its item into the channel (no send returned an
\* error).
C14_ChannelNeverClosed ==
    /\ TxAlive
    /\ cpc = "loop"
    /\ \A i \in Decoded : i = held.id \/ i \in Range(enq)
    /\ Len(enq) + (IF held.id # 0 THEN 1 ELSE 0) = Cardinality(Decoded)

\* Every socket event is consumed, every send has completed, and the
\* consumer loop is waiting on the empty channel.
C14_Witness ==
    /\ nextId = Len(net)
    /\ Len(enq) = Len(net)
    /\ queue = <<>>
    /\ cpc = "loop"
    /\ rpc = "sleep"

\* The ids of the store's rows, in order; 0 for a header row.
RowIds(st) == [k \in 1..Len(st) |-> st[k].id]

\* Units whose write_to_csv returned Ok.
Wrote == {u \in Ids : units[u].pc \in {"count", "ok"}}

\* C15: when writes do not overlap, after k >= 1 successful writes the store
\* is one header row followed by the k data rows, each flush having put its
\* row last (so the rows stand in the order of the writes), and a unit that
\* opened a non-empty store writes no header.
C15_SequentialWrites ==
    /\ [](/\ Wrote = {} => store = <<>>
          /\ Wrote # {} =>
               /\ Len(store) = Cardinality(Wrote) + 1
               /\ store[1].id = 0
               /\ \A k \in 2..Len(store) : store[k].id \in Wrote
               /\ \A u \in Wrote : RowCount(store, u) = 1
          /\ \A u \in Ids :
               units[u].pc \in {"metadata", "serialize", "flush", "count", "ok"}
                  => storeExists
          /\ \A u \in Ids :
               units[u].pc \in {"serialize", "flush"} =>
                  (units[u].needs_headers <=> store = <<>>))
    /\ [][\A u \in Ids :
            (units[u].pc = "flush" /\ units'[u].pc = "count") =>
               RowIds(store') =
                  RowIds(store) \o (IF store = <<>> THEN <<0, u>> ELSE <<u>>)]_vars

\* Three writes in turn left a header and three rows.
C15_Witness ==
    /\ Cardinality(Wrote) = 3
    /\ RowIds(store) \in {<<0, 1, 2, 3>>, <<0, 2, 1, 3>>, <<0, 3, 2, 1>>,
                          <<0, 1, 3, 2>>, <<0, 2, 3, 1>>, <<0, 3, 1, 2>>}

\* t with its newline characters left out.
RECURSIVE WithoutNewlines(_)
WithoutNewlines(t) ==
    IF Len(t) = 0 THEN <<>>
    ELSE IF Head(t) = "\n" THEN WithoutNewlines(Tail(t))
    ELSE <<Head(t)>> \o WithoutNewlines(Tail(t))

\* m is r without its leading and trailing whitespace: a slice of r that
\* neither starts nor ends with whitespace, with only whitespace around it.
IsTrimOf(m, r) ==
    /\ m # <<>> => (m[1] \notin White /\ m[Len(m)] \notin White)
    /\ \E i \in 1..(Len(r) + 1) : \E j \in 0..Len(r) :
         /\ m = SubSeq(r, i, j)
         /\ \A k \in 1..(i - 1) : r[k] \in White
         /\ \A k \in (j + 1)..Len(r) : r[k] \in White

\* Units for which handle_log has built a record.
Built ==
    {u \in Ids : \/ units[u].pc \in {"open", "metadata", "serialize", "flush",
                                    "count", "ok"}
                 \/ units[u].error = "io"}

\* C16: the message field of every record handle_log builds is the datagram
\* text with its newlines removed and then trimmed: it holds no newline and
\* neither starts nor ends with whitespace.
C16_MessageNormalized ==
    \A u \in Built :
       /\ \A k \in 1..Len(units[u].entry.syslog) : units[u].entry.syslog[k] # "\n"
       /\ IsTrimOf(units[u].entry.syslog, WithoutNewlines(units[u].data))

\* A text with an inner newline and trailing whitespace has been normalised.
C16_Witness ==
    \E u \in Built :
       /\ units[u].data = <<"a", "\n", "<", "1", ">", " ", "\n">>
       /\ units[u].entry.syslog = <<"a", "<", "1", ">">>

\* Item i waits in the ingestion queue.
Queued(i) == \E k \in 1..Len(queue) : queue[k].id = i

\* C17: every queued item is eventually dequeued and its unit spawned, and a
\* receiver suspended on a full queue eventually resumes, whether or not the
\* units dispatched before have finished.
C17_QueueDrains ==
    /\ \A i \in Ids : Queued(i) ~> (~Queued(i) /\ units[i].pc # "none")
    /\ (rpc = "blocked") ~> (rpc # "blocked")

\* C18: with every flush appended as one atomic write, a non-empty store
\* starts with a header row and every header row is directly followed by a
\* data row, whatever the interleaving of the writers.
C18_HeaderThenRow ==
    /\ store # <<>> => store[1].id = 0
    /\ \A k \in 1..Len(store) :
         store[k].id = 0 => (k < Len(store) /\ store[k + 1].id # 0)

\* Two writers both found the store empty: a second header sits mid-file.
C18_Witness ==
    /\ HeaderCount(store) = 2
    /\ \E k \in 2..Len(store) : store[k].id = 0

\* Nothing is in flight: the queue is empty, the receiver holds no datagram
\* and every dispatched unit has finished.
Quiet ==
    /\ queue = <<>>
    /\ held.id = 0
    /\ \A u \in Ids : units[u].pc = "none" \/ Finished(u)

\* C19: when nothing is in flight, received is the number of datagrams that
\* decoded and were enqueued and written is the number of data rows in the
\* store; always received <= items dequeued <= items enqueued.
C19_CountersAtRest ==
    /\ received <= Len(deq)
    /\ Len(deq) <= Len(enq)
    /\ Quiet =>
         /\ received = Cardinality(Decoded)
         /\ received = Len(enq)
         /\ written = DataRowCount(store)

\* At rest after three datagrams were handled, one of them without a row.
C19_Witness ==
    /\ Quiet
    /\ received = 3
    /\ written = 2
    /\ DataRowCount(store) = 2

====
